---- MODULE Spec2Model ----
(***************************************************************************)
(* A model of the private-agent RAG backend: the agent registry and the    *)
(* ask pipeline (core/agent_manager.py), the vector-store adapter          *)
(* (core/chroma_store.py) and the capabilities they call.                  *)
(*                                                                         *)
(* Strings are sequences of one-character strings, so that strip, split    *)
(* and join are computed and not assumed.                                  *)
(***************************************************************************)
EXTENDS Integers, Sequences, FiniteSets, TLC

VARIABLES
    settings,     \* config.settings: CHUNK_SIZE / CHUNK_OVERLAP read at start-up
    agents,       \* AgentManager.agents: agent_id -> persona
    clock,        \* datetime.now(), as a counter of the readings so far
    dbExists,     \* chroma client: a collection named "private_agent" exists
    dbGen,        \* chroma client: incarnation of that collection
    records,      \* chroma client: the records of the current incarnation
    handle,       \* ChromaStore.collection: the incarnation the adapter holds
    nextId,       \* uuid.uuid4(): the next id never stored (unused ids are alike)
    asks,         \* ask_agent coroutines: position and locals of each
    lastOp,       \* the last completed call: its inputs, outcome and calls made
    requests,     \* POST /agents handlers, in arrival order, with their outcome
    hist,         \* _build_conversation_history: an input pair and its output
    everStored,   \* the ids of all records the store has ever accepted
    generator,    \* EmbeddingGenerator: provider and whether _model is loaded
    lastEmbed,    \* the last get_embeddings call: inputs, outcome, backend use
    lastGen,      \* the last OllamaClient.generate call: inputs and outcome
    discarded     \* ids of the records that successful clears have discarded

\* the capabilities' side of the state, which the store and registry
\* operations leave alone
capab == <<generator, lastEmbed, lastGen>>

vars == <<settings, agents, clock, dbExists, dbGen, records, handle, nextId,
          asks, lastOp, requests, hist, everStored, capab, discarded>>

(***************************************************************************)
(* Bounds of the model.                                                    *)
(***************************************************************************)
MaxIds == 3          \* fresh ids handed out in one behaviour
MaxGen == 2          \* incarnations of the collection in one behaviour
MaxChunks == 2       \* the embedding request that may fail is one of the first MaxChunks
MaxRequests == 3     \* POST /agents requests in one behaviour
MaxHist == 7         \* longest history given to the prompt assembler
MaxLines == 2        \* lines of one streamed reply
MaxLoads == 2        \* model loads attempted in one behaviour

(***************************************************************************)
(* Text helpers.                                                           *)
(***************************************************************************)
NL == "\n"

Whitespace == {" ", NL, "\t"}

Min(a, b) == IF a < b THEN a ELSE b

Max(a, b) == IF a > b THEN a ELSE b

RECURSIVE LStrip(_)
LStrip(s) == IF s # <<>> /\ Head(s) \in Whitespace THEN LStrip(Tail(s)) ELSE s

RECURSIVE RStrip(_)
RStrip(s) ==
    IF s # <<>> /\ s[Len(s)] \in Whitespace
    THEN RStrip(SubSeq(s, 1, Len(s) - 1))
    ELSE s

\* str.strip()
Strip(s) == RStrip(LStrip(s))

\* text[:n] + "..." if len(text) > n else text
Ellipsis == <<".", ".", ".">>

Truncate(s, n) == IF Len(s) > n THEN SubSeq(s, 1, n) \o Ellipsis ELSE s

RECURSIVE Join(_, _)
\* separator.join(docs)
Join(docs, sep) ==
    IF docs = <<>> THEN <<>>
    ELSE IF Len(docs) = 1 THEN docs[1]
    ELSE docs[1] \o sep \o Join(Tail(docs), sep)

StartsWith(s, p) == Len(s) >= Len(p) /\ SubSeq(s, 1, Len(p)) = p

RECURSIVE ReSplit(_, _, _)
\* re.split(separator, text): the pieces between the leftmost
\* non-overlapping occurrences of the separator; cur is the piece in progress
ReSplit(s, sep, cur) ==
    IF s = <<>> THEN <<cur>>
    ELSE IF StartsWith(s, sep)
         THEN <<cur>> \o ReSplit(SubSeq(s, Len(sep) + 1, Len(s)), sep, <<>>)
         ELSE ReSplit(Tail(s), sep, Append(cur, Head(s)))

\* _split_text_with_regex without keep_separator: the non-empty pieces
SplitPieces(text, sep) == SelectSeq(ReSplit(text, sep, <<>>), LAMBDA p: p # <<>>)

\* TextSplitter._join_docs: None is the empty text
JoinDocs(docs, sep) == Strip(Join(docs, sep))

RECURSIVE PopDocs(_, _, _, _, _, _)
\* the `while` of _merge_splits: drop leading pieces of the current chunk
\* until what is kept fits the overlap and leaves room for the next piece
PopDocs(cur, total, len, seplen, size, overlap) ==
    IF total > overlap
       \/ (total + len + (IF Len(cur) > 0 THEN seplen ELSE 0) > size /\ total > 0)
    THEN PopDocs(Tail(cur),
                 total - (Len(cur[1]) + (IF Len(cur) > 1 THEN seplen ELSE 0)),
                 len, seplen, size, overlap)
    ELSE [cur |-> cur, total |-> total]

\* one iteration of the `for d in splits` of _merge_splits
MergeStep(st, d, sep, size, overlap) ==
    LET len == Len(d)
        seplen == Len(sep)
        over == st.total + len + (IF Len(st.cur) > 0 THEN seplen ELSE 0) > size
        flush == over /\ Len(st.cur) > 0
        doc == JoinDocs(st.cur, sep)
        docs2 == IF flush /\ doc # <<>> THEN Append(st.docs, doc) ELSE st.docs
        kept == IF flush
                THEN PopDocs(st.cur, st.total, len, seplen, size, overlap)
                ELSE [cur |-> st.cur, total |-> st.total]
        cur2 == Append(kept.cur, d)
    IN [docs |-> docs2,
        cur |-> cur2,
        total |-> kept.total + len + (IF Len(cur2) > 1 THEN seplen ELSE 0)]

RECURSIVE MergeFrom(_, _, _, _, _)
MergeFrom(st, splits, sep, size, overlap) ==
    IF splits = <<>> THEN st
    ELSE MergeFrom(MergeStep(st, Head(splits), sep, size, overlap),
                   Tail(splits), sep, size, overlap)

\* TextSplitter._merge_splits
MergeSplits(splits, sep, size, overlap) ==
    LET st == MergeFrom([docs |-> <<>>, cur |-> <<>>, total |-> 0],
                        splits, sep, size, overlap)
        doc == JoinDocs(st.cur, sep)
    IN IF doc # <<>> THEN Append(st.docs, doc) ELSE st.docs

\* CharacterTextSplitter(separator=sep, chunk_size, chunk_overlap).split_text
split_text(text, sep, size, overlap) ==
    MergeSplits(SplitPieces(text, sep), sep, size, overlap)

(***************************************************************************)
(* Inputs: the files offered for ingestion and the caller's metadata.      *)
(***************************************************************************)
HelloText ==
    <<"h", "e", "l", "l", "o", " ", "w", "o", "r", "l", "d", NL,
      "h", "e", "l", "l", "o", " ", "a", "g", "a", "i", "n">>

PdfFile == [path |-> "page.pdf", ext |-> ".pdf", body |-> << <<"a", "b">> >>]

\* a file: its path, its extension as written, and what its reader yields in
\* parts (.txt: the text as one part; .pdf: the text of each page; .docx and
\* .doc: each paragraph)
Files ==
    { [path |-> "hello.txt", ext |-> ".txt", body |-> <<HelloText>>],
      [path |-> "empty.txt", ext |-> ".txt", body |-> << <<>> >>],
      [path |-> "blank.TXT", ext |-> ".TXT", body |-> << <<" ", NL, "\t">> >>],
      [path |-> "notes.xyz", ext |-> ".xyz", body |-> << <<"h", "i">> >>],
      PdfFile,
      [path |-> "blank.docx", ext |-> ".docx", body |-> << <<>>, <<" ">> >>] }

NoMetadata == [k \in {} |-> 0]

\* the metadata the upload endpoints pass (api/upload.py)
Metadatas == { NoMetadata, [type |-> "text_input"] }

\* {**a, **b}: b's keys win
Merge(a, b) ==
    [k \in DOMAIN a \cup DOMAIN b |-> IF k \in DOMAIN b THEN b[k] ELSE a[k]]

\* str.lower() on the extensions in use
Lower(ext) == IF ext = ".TXT" THEN ".txt" ELSE ext

RECURSIVE ConcatLines(_)
\* text = ""; for part in parts: text += part + "\n"
ConcatLines(parts) ==
    IF parts = <<>> THEN <<>>
    ELSE parts[1] \o <<NL>> \o ConcatLines(Tail(parts))

\* an extractor whose last branch reads any other file as plain text
extract_text_any_extension(file, readOk) ==
    IF ~readOk
    THEN [ok |-> FALSE, error |-> "read failed", text |-> <<>>]
    ELSE IF Lower(file.ext) \in {".pdf", ".docx", ".doc"}
    THEN [ok |-> TRUE, error |-> "", text |-> ConcatLines(file.body)]
    ELSE [ok |-> TRUE, error |-> "", text |-> file.body[1]]

\* ChromaStore._extract_text_from_file; readOk: the file can be opened and read
extract_text_from_file(file, readOk) ==
    LET file_ext == Lower(file.ext) IN
    IF file_ext \notin {".txt", ".pdf", ".docx", ".doc"}
    THEN [ok |-> FALSE, error |-> "Unsupported file format", text |-> <<>>]
    ELSE IF ~readOk
    THEN [ok |-> FALSE, error |-> "read failed", text |-> <<>>]
    ELSE IF file_ext = ".txt"
    THEN [ok |-> TRUE, error |-> "", text |-> file.body[1]]
    ELSE [ok |-> TRUE, error |-> "", text |-> ConcatLines(file.body)]

(***************************************************************************)
(* The embedding provider.  A vector is modelled by the length of the      *)
(* text; failAt = i > 0 makes the i-th request fail.                       *)
(***************************************************************************)
Embed(text) == <<Len(text)>>

Distance(u, v) == IF u[1] >= v[1] THEN u[1] - v[1] ELSE v[1] - u[1]

\* EmbeddingGenerator._load_sentence_transformers: a loaded model is kept; a
\* failed load raises and leaves _model as None
load_sentence_transformers(gen, loadOk) ==
    IF gen.model_loaded THEN [ok |-> TRUE, model_loaded |-> TRUE, loads |-> 0]
    ELSE [ok |-> loadOk, model_loaded |-> loadOk, loads |-> 1]

\* the remote loop of get_embeddings: _ollama_embed_one for each text in order,
\* the first failing request (failAt) raises out of the loop
ollama_embed_all(texts, failAt) ==
    IF failAt \in 1..Len(texts)
    THEN [ok |-> FALSE, vectors |-> <<>>, requests |-> SubSeq(texts, 1, failAt)]
    ELSE [ok |-> TRUE,
          vectors |-> [i \in 1..Len(texts) |-> Embed(texts[i])],
          requests |-> texts]

\* a get_embeddings without the early return for an empty list
generator_get_embeddings_unguarded(gen, texts, failAt, loadOk, encodeOk) ==
    IF gen.provider = "ollama"
    THEN LET r == ollama_embed_all(texts, failAt) IN
         [ok |-> r.ok, vectors |-> r.vectors, requests |-> r.requests,
          loads |-> 0, encodes |-> 0, model_loaded |-> gen.model_loaded]
    ELSE LET ld == load_sentence_transformers(gen, loadOk) IN
         IF ~ld.ok
         THEN [ok |-> FALSE, vectors |-> <<>>, requests |-> <<>>,
               loads |-> ld.loads, encodes |-> 0, model_loaded |-> FALSE]
         ELSE [ok |-> encodeOk,
               vectors |-> IF encodeOk
                           THEN [i \in 1..Len(texts) |-> Embed(texts[i])]
                           ELSE <<>>,
               requests |-> <<>>, loads |-> ld.loads, encodes |-> 1,
               model_loaded |-> TRUE]

\* a remote loop that logs a failed request and goes on with the next text
generator_get_embeddings_skip_failed(gen, texts, failAt, loadOk, encodeOk) ==
    IF gen.provider = "ollama" /\ failAt \in 1..Len(texts)
    THEN [ok |-> TRUE,
          vectors |-> [i \in 1..(Len(texts) - 1) |->
                         Embed(texts[IF i < failAt THEN i ELSE i + 1])],
          requests |-> texts, loads |-> 0, encodes |-> 0,
          model_loaded |-> gen.model_loaded]
    ELSE generator_get_embeddings_unguarded(gen, texts, failAt, loadOk, encodeOk)

\* EmbeddingGenerator.get_embeddings.  failAt: the remote request that fails
\* (0: none); loadOk, encodeOk: whether loading the local model and its encode
\* call succeed.  The result tells what was returned (ok, vectors), which texts
\* were sent to the remote endpoint, and how often the local model was loaded
\* and invoked.
generator_get_embeddings(gen, texts, failAt, loadOk, encodeOk) ==
    IF texts = <<>>
    THEN [ok |-> TRUE, vectors |-> <<>>, requests |-> <<>>,
          loads |-> 0, encodes |-> 0, model_loaded |-> gen.model_loaded]
    ELSE IF gen.provider = "ollama"
    THEN LET r == ollama_embed_all(texts, failAt) IN
         [ok |-> r.ok, vectors |-> r.vectors, requests |-> r.requests,
          loads |-> 0, encodes |-> 0, model_loaded |-> gen.model_loaded]
    ELSE LET ld == load_sentence_transformers(gen, loadOk) IN
         IF ~ld.ok
         THEN [ok |-> FALSE, vectors |-> <<>>, requests |-> <<>>,
               loads |-> ld.loads, encodes |-> 0, model_loaded |-> FALSE]
         ELSE [ok |-> encodeOk,
               vectors |-> IF encodeOk
                           THEN [i \in 1..Len(texts) |-> Embed(texts[i])]
                           ELSE <<>>,
               requests |-> <<>>, loads |-> ld.loads, encodes |-> 1,
               model_loaded |-> TRUE]

\* get_embeddings as the store and the ask pipeline use it: one request per
\* text, the first failure aborts the call
get_embeddings(texts, failAt) ==
    IF texts = <<>>
    THEN [ok |-> TRUE, vectors |-> <<>>, calls |-> 0]
    ELSE IF failAt \in 1..Len(texts)
    THEN [ok |-> FALSE, vectors |-> <<>>, calls |-> failAt]
    ELSE [ok |-> TRUE,
          vectors |-> [i \in 1..Len(texts) |-> Embed(texts[i])],
          calls |-> Len(texts)]

(***************************************************************************)
(* The chroma collection behind the adapter's handle.                      *)
(***************************************************************************)
\* the handle refers to a collection the client still has
HandleValid == dbExists /\ handle = dbGen

Ids(recs) == {recs[i].id : i \in 1..Len(recs)}

\* Collection.add: one call, all of its records or an error
collection_add(recs, fault) ==
    IF ~HandleValid \/ fault \/ recs = <<>>
    THEN [ok |-> FALSE, records |-> records]
    ELSE [ok |-> TRUE, records |-> records \o recs]

\* Collection.delete(ids=[id]): an id the collection does not hold is skipped
\* without an error
collection_delete(id, fault) ==
    IF ~HandleValid \/ fault
    THEN [ok |-> FALSE, records |-> records]
    ELSE [ok |-> TRUE, records |-> SelectSeq(records, LAMBDA r: r.id # id)]

\* Collection.get(include=[documents, metadatas])
collection_get(fault) ==
    IF ~HandleValid \/ fault
    THEN [ok |-> FALSE, records |-> <<>>]
    ELSE [ok |-> TRUE, records |-> records]

RECURSIVE InsertByDistance(_, _)
\* place hit h after every hit that is at most as far: nearest first, ties in
\* the collection's own order
InsertByDistance(hits, h) ==
    IF hits = <<>> THEN <<h>>
    ELSE IF h.distance < hits[1].distance THEN <<h>> \o hits
    ELSE <<hits[1]>> \o InsertByDistance(Tail(hits), h)

RECURSIVE Ranked(_, _)
Ranked(recs, qvec) ==
    IF recs = <<>> THEN <<>>
    ELSE InsertByDistance(
            Ranked(SubSeq(recs, 1, Len(recs) - 1), qvec),
            [text |-> recs[Len(recs)].text,
             metadata |-> recs[Len(recs)].metadata,
             distance |-> Distance(recs[Len(recs)].embedding, qvec)])

\* Collection.query(query_embeddings=[qvec], n_results=n, include=[documents,
\* metadatas, distances]): one result list per query embedding
collection_query(qvec, n, fault) ==
    IF ~HandleValid \/ fault
    THEN [ok |-> FALSE, documents |-> <<>>, metadatas |-> <<>>, distances |-> <<>>]
    ELSE LET all == Ranked(records, qvec)
             top == SubSeq(all, 1, Min(n, Len(all)))
         IN [ok |-> TRUE,
             documents |-> << [i \in 1..Len(top) |-> top[i].text] >>,
             metadatas |-> << [i \in 1..Len(top) |-> top[i].metadata] >>,
             distances |-> << [i \in 1..Len(top) |-> top[i].distance] >>]

(***************************************************************************)
(* ChromaStore: the adapter's operations, as the outcome of one call.      *)
(***************************************************************************)
TopK == 5

\* the hits ask_agent's query for message gets from a collection that holds
\* the records recs
HitsOver(recs, message) ==
    LET all == Ranked(recs, Embed(message))
    IN SubSeq(all, 1, Min(TopK, Len(all)))

\* the hits of query built from the first distance alone
format_results_first_distance(results) ==
    IF results.documents # <<>> /\ results.documents[1] # <<>>
    THEN [i \in 1..Len(results.documents[1]) |->
            [text |-> results.documents[1][i],
             metadata |-> results.metadatas[1][i],
             distance |-> IF results.distances # <<>>
                          THEN results.distances[1][1]
                          ELSE 0]]
    ELSE <<>>

\* the "Format results" loop of query: one hit per document of the first (and
\* only) result list, in its order
format_results(results) ==
    IF results.documents # <<>> /\ results.documents[1] # <<>>
    THEN [i \in 1..Len(results.documents[1]) |->
            [text |-> results.documents[1][i],
             metadata |-> results.metadatas[1][i],
             distance |-> IF results.distances # <<>>
                          THEN results.distances[1][i]
                          ELSE 0]]
    ELSE <<>>

\* ChromaStore.query.  distances: the store's reply carries the distances it
\* was asked for
query(query_text, top_k, failAt, fault, distances) ==
    LET emb == get_embeddings(<<query_text>>, failAt) IN
    IF ~emb.ok
    THEN [ok |-> FALSE, hits |-> <<>>, embedCalls |-> emb.calls, queryCalls |-> 0]
    ELSE LET reply == collection_query(emb.vectors[1], top_k, fault)
             results == IF distances THEN reply
                        ELSE [reply EXCEPT !.distances = <<>>]
         IN
         IF ~results.ok
         THEN [ok |-> FALSE, hits |-> <<>>, embedCalls |-> emb.calls, queryCalls |-> 1]
         ELSE [ok |-> TRUE, hits |-> format_results(results),
               embedCalls |-> emb.calls, queryCalls |-> 1]

\* ids = [str(uuid.uuid4()) for _ in chunks]
FreshIds(n) == [i \in 1..n |-> nextId + i - 1]

\* the metadata ingest_document gives chunk i (0-based) of n
chunk_metadata(file, metadata, i, n) ==
    Merge([filename |-> file.path,
           chunk_id |-> <<"chunk", i>>,
           chunk_index |-> i,
           total_chunks |-> n,
           file_path |-> file.path],
          metadata)

\* ChromaStore.ingest_document, up to the store add: what it would add
ingest_records(file, metadata, chunks, vectors) ==
    [i \in 1..Len(chunks) |->
        [id |-> FreshIds(Len(chunks))[i],
         text |-> chunks[i],
         embedding |-> vectors[i],
         metadata |-> chunk_metadata(file, metadata, i - 1, Len(chunks))]]

IngestFailed ==
    [ok |-> FALSE, error |-> "", records |-> records, ids |-> <<>>,
     chunks_created |-> 0, embedCalls |-> 0, addCalls |-> 0]

\* an ingestion that adds each chunk as soon as it is embedded: the chunks
\* before a failed embedding request stay in the store
ingest_commit_incremental(file, metadata, text, failAt, addFault) ==
    LET chunks == split_text(text, <<NL>>,
                             settings.CHUNK_SIZE, settings.CHUNK_OVERLAP)
        emb == get_embeddings(chunks, failAt)
        all == ingest_records(file, metadata, chunks,
                              [i \in 1..Len(chunks) |-> Embed(chunks[i])])
        done == IF emb.ok THEN all ELSE SubSeq(all, 1, emb.calls - 1)
        add == collection_add(done, addFault)
    IN
    IF emb.ok /\ add.ok
    THEN [ok |-> TRUE, error |-> "", records |-> add.records,
          ids |-> FreshIds(Len(chunks)), chunks_created |-> Len(chunks),
          embedCalls |-> emb.calls, addCalls |-> 1]
    ELSE [IngestFailed EXCEPT !.error = "failed", !.records = add.records,
                              !.embedCalls = emb.calls, !.addCalls = 1]

\* an ingestion that hands the store one add per chunk instead of one add of
\* all chunks
ingest_commit_add_each(file, metadata, text, failAt, addFault) ==
    LET chunks == split_text(text, <<NL>>,
                             settings.CHUNK_SIZE, settings.CHUNK_OVERLAP)
        emb == get_embeddings(chunks, failAt)
        add == collection_add(
                   ingest_records(file, metadata, chunks,
                                  [i \in 1..Len(chunks) |-> Embed(chunks[i])]),
                   addFault)
    IN
    IF emb.ok /\ add.ok
    THEN [ok |-> TRUE, error |-> "", records |-> add.records,
          ids |-> FreshIds(Len(chunks)), chunks_created |-> Len(chunks),
          embedCalls |-> emb.calls, addCalls |-> Len(chunks)]
    ELSE [IngestFailed EXCEPT !.error = "failed", !.embedCalls = emb.calls,
                              !.addCalls = IF emb.ok THEN 1 ELSE 0]

\* ChromaStore.ingest_document from the split on: chunk, embed every chunk,
\* then one add of all records
ingest_commit(file, metadata, text, failAt, addFault) ==
    LET chunks == split_text(text, <<NL>>,
                             settings.CHUNK_SIZE, settings.CHUNK_OVERLAP)
        emb == get_embeddings(chunks, failAt)
    IN
    IF ~emb.ok
    THEN [IngestFailed EXCEPT !.error = "Embedding generation failed",
                              !.embedCalls = emb.calls]
    ELSE LET ids == FreshIds(Len(chunks))
             add == collection_add(
                        ingest_records(file, metadata, chunks, emb.vectors),
                        addFault)
         IN
         IF ~add.ok
         THEN [IngestFailed EXCEPT !.error = "add failed", !.ids = ids,
                                   !.embedCalls = emb.calls, !.addCalls = 1]
         ELSE [ok |-> TRUE, error |-> "", records |-> add.records,
               ids |-> ids, chunks_created |-> Len(chunks),
               embedCalls |-> emb.calls, addCalls |-> 1]

\* ChromaStore.ingest_document: readOk, failAt and addFault are what the file
\* system, the embedding provider and the store do during this call; every
\* exception leaves as "Document ingestion failed: ..."
ingest_document(file, metadata, readOk, failAt, addFault) ==
    LET ex == extract_text_from_file(file, readOk) IN
    IF ~ex.ok THEN [IngestFailed EXCEPT !.error = ex.error]
    ELSE IF Strip(ex.text) = <<>>
    THEN [IngestFailed EXCEPT !.error = "No text content found in file"]
    ELSE ingest_commit(file, metadata, ex.text, failAt, addFault)

\* ChromaStore.list_memories
list_memories(fault) ==
    LET results == collection_get(fault) IN
    IF ~results.ok THEN [ok |-> FALSE, memories |-> <<>>]
    ELSE [ok |-> TRUE,
          memories |-> [i \in 1..Len(results.records) |->
                          [id |-> results.records[i].id,
                           text |-> results.records[i].text,
                           metadata |-> results.records[i].metadata]]]

\* ChromaStore.delete_memory: True unless the store call raised
delete_memory(memory_id, fault) ==
    LET del == collection_delete(memory_id, fault) IN
    [result |-> del.ok, records |-> del.records]

\* a clear that recreates the collection and keeps the old handle
clear_store_keeps_handle(deleteFault, createFault) ==
    IF ~dbExists \/ deleteFault
    THEN [result |-> FALSE, dbExists |-> dbExists, dbGen |-> dbGen,
          records |-> records, handle |-> handle]
    ELSE IF createFault
    THEN [result |-> FALSE, dbExists |-> FALSE, dbGen |-> dbGen,
          records |-> <<>>, handle |-> handle]
    ELSE [result |-> TRUE, dbExists |-> TRUE, dbGen |-> dbGen + 1,
          records |-> <<>>, handle |-> handle]

\* ChromaStore.clear_store: delete_collection, then create_collection and the
\* assignment of the new handle; either call may raise, and the except clause
\* returns False leaving whatever was done so far
clear_store(deleteFault, createFault) ==
    IF ~dbExists \/ deleteFault
    THEN [result |-> FALSE, dbExists |-> dbExists, dbGen |-> dbGen,
          records |-> records, handle |-> handle]
    ELSE IF createFault
    THEN [result |-> FALSE, dbExists |-> FALSE, dbGen |-> dbGen,
          records |-> <<>>, handle |-> handle]
    ELSE [result |-> TRUE, dbExists |-> TRUE, dbGen |-> dbGen + 1,
          records |-> <<>>, handle |-> dbGen + 1]

(***************************************************************************)
(* AgentManager: registry, prompt assembly, conversation write-back.       *)
(***************************************************************************)
None == "None"

OLLAMA_MODEL == "llama-3.2-70b"

DefaultPrompt == "You are a helpful private assistant. ..."

\* AgentManager.__init__
InitAgents ==
    [a \in {"default"} |->
        [name |-> "Default Assistant", system_prompt |-> DefaultPrompt,
         model_override |-> None, created_at |-> 0]]

\* the persona create_agent writes
Persona(name, system_prompt, model_override) ==
    [name |-> name, system_prompt |-> system_prompt,
     model_override |-> model_override, created_at |-> clock]

\* a registration that writes first and checks for the duplicate afterwards
create_agent_check_after_write(agent_id, name, system_prompt, model_override) ==
    [ok |-> agent_id \notin DOMAIN agents,
     agents |-> [a \in DOMAIN agents \cup {agent_id} |->
                    IF a = agent_id
                    THEN Persona(name, system_prompt, model_override)
                    ELSE agents[a]]]

\* a registration without the duplicate check
create_agent_unchecked(agent_id, name, system_prompt, model_override) ==
    [ok |-> TRUE,
     agents |-> [a \in DOMAIN agents \cup {agent_id} |->
                    IF a = agent_id
                    THEN Persona(name, system_prompt, model_override)
                    ELSE agents[a]]]

\* AgentManager.create_agent: the duplicate check, then the write
create_agent(agent_id, name, system_prompt, model_override) ==
    IF agent_id \in DOMAIN agents
    THEN [ok |-> FALSE, agents |-> agents]
    ELSE [ok |-> TRUE,
          agents |-> [a \in DOMAIN agents \cup {agent_id} |->
                        IF a = agent_id
                        THEN Persona(name, system_prompt, model_override)
                        ELSE agents[a]]]

NoDocsStatement == "No relevant documents found in the knowledge base."

DocsHeader == "Relevant documents from knowledge base:"

\* doc["metadata"].get(key, "unknown")
MetaGet(metadata, key) ==
    IF key \in DOMAIN metadata THEN metadata[key] ELSE "unknown"

ContextChars == 500

SourceChars == 200

\* a context builder without the branch for no documents
build_context_always_lists(relevant_docs) ==
    [statement |-> DocsHeader,
     entries |-> [i \in 1..Len(relevant_docs) |->
                    [n |-> i,
                     filename |-> MetaGet(relevant_docs[i].metadata, "filename"),
                     chunk_id |-> MetaGet(relevant_docs[i].metadata, "chunk_id"),
                     text |-> Truncate(relevant_docs[i].text, ContextChars)]]]

\* AgentManager._build_context: the opening statement and the numbered entries
\* that "\n\n".join puts after it
build_context(relevant_docs) ==
    IF relevant_docs = <<>>
    THEN [statement |-> NoDocsStatement, entries |-> <<>>]
    ELSE [statement |-> DocsHeader,
          entries |-> [i \in 1..Len(relevant_docs) |->
                         [n |-> i,
                          filename |-> MetaGet(relevant_docs[i].metadata, "filename"),
                          chunk_id |-> MetaGet(relevant_docs[i].metadata, "chunk_id"),
                          text |-> Truncate(relevant_docs[i].text, ContextChars)]]]

\* AgentManager._build_system_prompt: base_prompt, a blank line, the context
build_system_prompt(base_prompt, context) ==
    [base |-> base_prompt, context |-> context]

HistoryWindow == 5

\* history[:5]: the window taken from the wrong end
FirstTurns(history, n) == SubSeq(history, 1, Min(n, Len(history)))

\* history[-5:]
LastTurns(history, n) ==
    SubSeq(history, Max(1, Len(history) - n + 1), Len(history))

\* msg.get(key, default)
TurnGet(msg, key, default) == IF key \in DOMAIN msg THEN msg[key] ELSE default

\* AgentManager._build_conversation_history: the lines that "\n".join puts
\* together; with no history the prompt is the input itself, unlabelled
build_conversation_history(history, current_input) ==
    IF history = <<>>
    THEN << [label |-> "", content |-> current_input] >>
    ELSE LET window == LastTurns(history, HistoryWindow) IN
         [i \in 1..Len(window) |->
            [label |-> TurnGet(window[i], "role", "user"),
             content |-> TurnGet(window[i], "content", <<>>)]]
         \o << [label |-> "user", content |-> current_input] >>

\* AgentManager._format_sources
format_sources(relevant_docs) ==
    [i \in 1..Len(relevant_docs) |->
        [filename |-> MetaGet(relevant_docs[i].metadata, "filename"),
         chunk_id |-> MetaGet(relevant_docs[i].metadata, "chunk_id"),
         text |-> Truncate(relevant_docs[i].text, SourceChars),
         distance |-> relevant_docs[i].distance]]

UserLabel == <<"U", "s", "e", "r", ":", " ">>

AssistantLabel == <<NL, "A", "s", "s", "i", "s", "t", "a", "n", "t", ":", " ">>

\* f"User: {user_input}\nAssistant: {response}"
conversation_text(user_input, response) ==
    UserLabel \o user_input \o AssistantLabel \o response

\* the records _store_conversation builds for its chunks
conversation_records(chunks, vectors, agent_id) ==
    [i \in 1..Len(chunks) |->
        [id |-> FreshIds(Len(chunks))[i],
         text |-> chunks[i],
         embedding |-> vectors[i],
         metadata |-> [type |-> "conversation",
                       agent_id |-> agent_id,
                       timestamp |-> clock,
                       filename |-> "conversation",
                       chunk_id |-> <<"conv", i - 1>>]]]

\* a write-back that adds its chunks to the collection one add at a time
store_conversation_add_each(user_input, response, agent_id, failAt, addFault) ==
    LET chunks == split_text(conversation_text(user_input, response), <<NL, NL>>,
                             settings.CHUNK_SIZE, settings.CHUNK_OVERLAP)
        emb == get_embeddings(chunks, failAt)
    IN
    IF ~emb.ok
    THEN [stored |-> FALSE, records |-> records, ids |-> <<>>,
          embedCalls |-> emb.calls, addCalls |-> 0]
    ELSE LET add == collection_add(
                        conversation_records(chunks, emb.vectors, agent_id),
                        addFault)
         IN [stored |-> add.ok, records |-> add.records,
             ids |-> FreshIds(Len(chunks)),
             embedCalls |-> emb.calls, addCalls |-> Len(chunks)]

\* the body of the try block of _store_conversation: its own splitter (default
\* separator, a blank line), then embed and one add
store_conversation_attempt(user_input, response, agent_id, failAt, addFault) ==
    LET chunks == split_text(conversation_text(user_input, response), <<NL, NL>>,
                             settings.CHUNK_SIZE, settings.CHUNK_OVERLAP)
        emb == get_embeddings(chunks, failAt)
    IN
    IF ~emb.ok
    THEN [stored |-> FALSE, records |-> records, ids |-> <<>>,
          embedCalls |-> emb.calls, addCalls |-> 0]
    ELSE LET add == collection_add(
                        conversation_records(chunks, emb.vectors, agent_id),
                        addFault)
         IN [stored |-> add.ok, records |-> add.records,
             ids |-> FreshIds(Len(chunks)),
             embedCalls |-> emb.calls, addCalls |-> 1]

\* a write-back without the catch-all: a failed attempt raises into ask_agent
store_conversation_propagates(user_input, response, agent_id, failAt, addFault) ==
    LET w == store_conversation_attempt(user_input, response, agent_id,
                                        failAt, addFault)
    IN [raised |-> ~w.stored, stored |-> w.stored, records |-> w.records,
        ids |-> w.ids, embedCalls |-> w.embedCalls, addCalls |-> w.addCalls]

\* AgentManager._store_conversation: every exception of the attempt is caught
\* and logged, none is raised to ask_agent
store_conversation(user_input, response, agent_id, failAt, addFault) ==
    LET w == store_conversation_attempt(user_input, response, agent_id,
                                        failAt, addFault)
    IN [raised |-> FALSE, stored |-> w.stored, records |-> w.records,
        ids |-> w.ids, embedCalls |-> w.embedCalls, addCalls |-> w.addCalls]

\* POST /chat: the status of the response; every exception of ask_agent
\* becomes HTTPException(status_code=500, detail=str(e))
chat_status(ok) == IF ok THEN 200 ELSE 500

\* an ask_agent that retrieves before it looks the agent up
ask_prepare_query_first(agent_id, user_input, history, failAt, queryFault) ==
    LET q == query(user_input, TopK, failAt, queryFault, TRUE) IN
    IF ~q.ok
    THEN [ok |-> FALSE, error |-> "Query failed", relevant_docs |-> <<>>,
          embedCalls |-> q.embedCalls, queryCalls |-> q.queryCalls]
    ELSE IF agent_id \notin DOMAIN agents
    THEN [ok |-> FALSE, error |-> "Agent not found", relevant_docs |-> <<>>,
          embedCalls |-> q.embedCalls, queryCalls |-> q.queryCalls]
    ELSE [ok |-> TRUE, error |-> "", relevant_docs |-> q.hits,
          embedCalls |-> q.embedCalls, queryCalls |-> q.queryCalls]

\* an ask_agent whose retrieval is best-effort: a failed query leaves the
\* request without documents and the pipeline goes on
ask_prepare_best_effort(agent_id, user_input, history, failAt, queryFault) ==
    IF agent_id \notin DOMAIN agents
    THEN [ok |-> FALSE, error |-> "Agent not found", relevant_docs |-> <<>>,
          embedCalls |-> 0, queryCalls |-> 0]
    ELSE LET q == query(user_input, TopK, failAt, queryFault, TRUE) IN
         [ok |-> TRUE, error |-> "",
          relevant_docs |-> IF q.ok THEN q.hits ELSE <<>>,
          embedCalls |-> q.embedCalls, queryCalls |-> q.queryCalls]

\* AgentManager.ask_agent up to the await: lookup, retrieval, prompt assembly
ask_prepare(agent_id, user_input, history, failAt, queryFault) ==
    IF agent_id \notin DOMAIN agents
    THEN [ok |-> FALSE, error |-> "Agent not found", relevant_docs |-> <<>>,
          embedCalls |-> 0, queryCalls |-> 0]
    ELSE LET q == query(user_input, TopK, failAt, queryFault, TRUE) IN
         IF ~q.ok
         THEN [ok |-> FALSE, error |-> "Query failed", relevant_docs |-> <<>>,
               embedCalls |-> q.embedCalls, queryCalls |-> q.queryCalls]
         ELSE [ok |-> TRUE, error |-> "", relevant_docs |-> q.hits,
               embedCalls |-> q.embedCalls, queryCalls |-> q.queryCalls]

\* agent_config.get("model_override") or settings.OLLAMA_MODEL
model_name_of(agent_config) ==
    IF agent_config.model_override \in {None, ""}
    THEN OLLAMA_MODEL
    ELSE agent_config.model_override

(***************************************************************************)
(* The state machine of the store and the ask pipeline.                    *)
(***************************************************************************)
Procs == {"p1", "p2"}

AskAgentIds == {"default", "ghost"}

\* what a chat request carries besides the agent id: message and history
ChatInputs ==
    { [message |-> <<"h", "i">>, history |-> <<>>],
      [message |-> <<"a", NL, NL, "b">>,
       history |-> << [role |-> "assistant", content |-> <<"o", "k">>] >>] }

Answers == { <<"o", "k">>, <<>> }


Idle == [pc |-> "idle"]

NoFile == [path |-> "", ext |-> "", body |-> <<>>]

NoResponse ==
    [answer |-> <<>>, sources |-> <<>>, model |-> "", timestamp |-> 0,
     system_prompt |-> [base |-> "",
                        context |-> [statement |-> "", entries |-> <<>>]],
     prompt |-> <<>>, user_input |-> <<>>]

\* a completed call: which one, its arguments (file, memory_id, agent_id), how
\* it ended (ok: it returned, error: what it raised, returned: the boolean of
\* delete_memory and clear_store, chunks: chunks_created, memories: the
\* listing, response: what ask_agent returned), the store before it, the
\* requests it made to the capabilities, and for a chat request what it
\* carried (request), the store its retrieval ran against (seen) and the
\* incarnation of the collection then (beginGen); gen and existed: the
\* incarnation at the call, or at the write-back of a chat request
NoOp ==
    [op |-> "none", proc |-> "", file |-> NoFile, memory_id |-> 0,
     agent_id |-> "", ok |-> TRUE, error |-> "", returned |-> FALSE,
     chunks |-> 0, memories |-> <<>>, response |-> NoResponse,
     before |-> <<>>, beforeValid |-> TRUE, everBefore |-> {}, ids |-> <<>>,
     embedCalls |-> 0, addCalls |-> 0, queryCalls |-> 0, genCalls |-> 0,
     storeCount |-> 0, genOk |-> FALSE, generated |-> <<>>, stored |-> FALSE,
     query_text |-> <<>>, top_k |-> 0, distances |-> TRUE, fault |-> FALSE,
     hits |-> <<>>, status |-> 0, listing |-> {},
     request |-> [message |-> <<>>, history |-> <<>>], seen |-> <<>>,
     gen |-> 0, existed |-> TRUE, beginGen |-> 0]

\* no get_embeddings call yet
NoEmbed ==
    [called |-> FALSE, provider |-> "", texts |-> <<>>, failAt |-> 0,
     loadOk |-> TRUE, encodeOk |-> TRUE, loadedBefore |-> FALSE,
     ok |-> TRUE, vectors |-> <<>>, requests |-> <<>>, loads |-> 0,
     encodes |-> 0]

\* no generate call yet
NoGen ==
    [called |-> FALSE, stream |-> FALSE,
     payload |-> [model |-> "", prompt |-> <<>>, stream |-> FALSE,
                  system |-> <<>>],
     transport |-> "", reply |-> "", reply_text |-> <<>>,
     outcome |-> "", error |-> "", text |-> <<>>, requests |-> 0,
     lines |-> <<>>, fragments |-> <<>>, probe |-> "", healthy |-> FALSE]

StoreInit(configs) ==
    /\ settings \in configs
    /\ agents = InitAgents
    /\ clock = 0
    /\ dbExists = TRUE
    /\ dbGen = 1
    /\ records = <<>>
    /\ handle = 1
    /\ nextId = 1
    /\ asks = [p \in Procs |-> Idle]
    /\ lastOp = NoOp
    /\ everStored = {}
    /\ lastEmbed = NoEmbed
    /\ lastGen = NoGen
    /\ discarded = {}

\* the call's view of the state before it ran
Called(op) ==
    [NoOp EXCEPT !.op = op, !.before = records,
                 !.beforeValid = HandleValid, !.everBefore = everStored,
                 !.gen = dbGen, !.existed = dbExists, !.beginGen = dbGen]

\* POST /upload, /upload-text: chroma_store.ingest_document(path, metadata)
IngestDocument(files, metadatas) ==
    \E file \in files, metadata \in metadatas, readOk \in BOOLEAN,
       failAt \in 0..MaxChunks, addFault \in BOOLEAN :
        /\ nextId <= MaxIds
        /\ LET r == ingest_document(file, metadata, readOk, failAt, addFault) IN
           /\ records' = r.records
           /\ nextId' = IF r.ok THEN nextId + Len(r.ids) ELSE nextId
           /\ everStored' = everStored \cup Ids(r.records)
           /\ lastOp' = [Called("ingest") EXCEPT
                            !.file = file, !.ok = r.ok, !.error = r.error,
                            !.chunks = r.chunks_created,
                            !.ids = r.ids, !.embedCalls = r.embedCalls,
                            !.addCalls = r.addCalls]
        /\ UNCHANGED <<discarded, capab, settings, agents, clock, dbExists, dbGen, handle, asks,
                       requests, hist>>

\* GET /memory: chroma_store.list_memories()
ListMemories ==
    \E fault \in BOOLEAN :
        /\ LET r == list_memories(fault) IN
           lastOp' = [Called("list") EXCEPT !.ok = r.ok, !.memories = r.memories]
        /\ UNCHANGED <<discarded, capab, settings, agents, clock, dbExists, dbGen, records, handle,
                       nextId, asks, requests, hist, everStored>>

\* DELETE /memory/{memory_id}: chroma_store.delete_memory(memory_id)
DeleteMemory ==
    \E memory_id \in 1..(MaxIds + 1), fault \in BOOLEAN :
        /\ LET r == delete_memory(memory_id, fault) IN
           /\ records' = r.records
           /\ lastOp' = [Called("delete") EXCEPT !.memory_id = memory_id,
                                                 !.returned = r.result]
        /\ UNCHANGED <<discarded, capab, settings, agents, clock, dbExists, dbGen, handle, nextId,
                       asks, requests, hist, everStored>>

\* DELETE /memory: chroma_store.clear_store()
ClearStore ==
    \E deleteFault \in BOOLEAN, createFault \in BOOLEAN :
        /\ dbGen < MaxGen
        /\ LET r == clear_store(deleteFault, createFault) IN
           /\ dbExists' = r.dbExists
           /\ dbGen' = r.dbGen
           /\ records' = r.records
           /\ handle' = r.handle
           /\ lastOp' = [Called("clear") EXCEPT !.returned = r.result]
           /\ discarded' = IF r.result THEN discarded \cup Ids(records)
                            ELSE discarded
        /\ UNCHANGED <<capab, settings, agents, clock, nextId, asks, requests, hist,
                       everStored>>

\* POST /chat: agent_manager.ask_agent, from the call to the await of generate
\* (or to the exception that ends the call before it)
AskBegin(p) ==
    \E agent_id \in AskAgentIds, request \in ChatInputs,
       failAt \in 0..1, queryFault \in BOOLEAN :
        /\ asks[p].pc = "idle"
        /\ LET user_input == request.message
               history == request.history
               r == ask_prepare(agent_id, user_input, history, failAt, queryFault)
           IN
           IF r.ok
           THEN /\ asks' = [asks EXCEPT ![p] =
                    [pc |-> "generating",
                     agent_id |-> agent_id,
                     user_input |-> user_input,
                     relevant_docs |-> r.relevant_docs,
                     system_prompt |->
                        build_system_prompt(agents[agent_id].system_prompt,
                                            build_context(r.relevant_docs)),
                     prompt |-> build_conversation_history(history, user_input),
                     model_name |-> model_name_of(agents[agent_id]),
                     storeCount |-> Len(records),
                     request |-> request,
                     seen |-> records,
                     gen |-> dbGen,
                     embedCalls |-> r.embedCalls,
                     queryCalls |-> r.queryCalls]]
                /\ UNCHANGED lastOp
           ELSE /\ lastOp' = [Called("ask") EXCEPT
                                !.agent_id = agent_id,
                                !.proc = p, !.ok = FALSE, !.error = r.error,
                                !.status = chat_status(FALSE),
                                !.storeCount = Len(records),
                                !.request = request,
                                !.seen = records,
                                !.embedCalls = r.embedCalls,
                                !.queryCalls = r.queryCalls]
                /\ UNCHANGED asks
        /\ UNCHANGED <<discarded, capab, settings, agents, clock, dbExists, dbGen, records, handle,
                       nextId, requests, hist, everStored>>

\* an ask_agent that keeps what it retrieved and assembled on the manager
\* object: the response is built from what the latest request left there
ask_response_shared(a, response_text) ==
    LET others == {q \in Procs : asks[q].pc = "generating" /\ asks[q] # a}
        b == IF others = {} THEN a ELSE asks[CHOOSE q \in others : TRUE]
    IN [answer |-> response_text,
        sources |-> format_sources(b.relevant_docs),
        model |-> b.model_name,
        timestamp |-> clock,
        system_prompt |-> b.system_prompt,
        prompt |-> b.prompt,
        user_input |-> b.user_input]

\* an ask_agent that writes the exchange back before it retrieves: its
\* sources come from a collection that holds the records of its own exchange
ask_response_after_write_back(a, response_text) ==
    LET chunks == split_text(conversation_text(a.user_input, response_text),
                             <<NL, NL>>, settings.CHUNK_SIZE,
                             settings.CHUNK_OVERLAP)
        own == conversation_records(chunks,
                                    [i \in 1..Len(chunks) |-> Embed(chunks[i])],
                                    a.agent_id)
    IN [answer |-> response_text,
        sources |-> format_sources(HitsOver(a.seen \o own, a.user_input)),
        model |-> a.model_name,
        timestamp |-> clock,
        system_prompt |-> a.system_prompt,
        prompt |-> a.prompt,
        user_input |-> a.user_input]

\* what ask_agent returns once generation has produced response_text
ask_response(a, response_text) ==
    [answer |-> response_text,
     sources |-> format_sources(a.relevant_docs),
     model |-> a.model_name,
     timestamp |-> clock,
     system_prompt |-> a.system_prompt,
     prompt |-> a.prompt,
     user_input |-> a.user_input]

\* ask_agent from the return of generate: an error ends the call, a text is
\* written back to the store and returned
AskResume(p) ==
    \E generated \in BOOLEAN, response_text \in Answers,
       failAt \in 0..MaxChunks, addFault \in BOOLEAN :
        /\ asks[p].pc = "generating"
        /\ nextId <= MaxIds
        /\ LET a == asks[p]
               called == [Called("ask") EXCEPT
                            !.agent_id = a.agent_id,
                            !.proc = p, !.genCalls = 1,
                            !.storeCount = a.storeCount,
                            !.request = a.request,
                            !.seen = a.seen,
                            !.beginGen = a.gen,
                            !.embedCalls = a.embedCalls,
                            !.queryCalls = a.queryCalls]
           IN
           IF ~generated
           THEN /\ lastOp' = [called EXCEPT !.ok = FALSE,
                                            !.error = "generation failed",
                                            !.status = chat_status(FALSE)]
                /\ UNCHANGED <<records, nextId, everStored>>
           ELSE \E w \in {store_conversation(a.user_input, response_text,
                                               a.agent_id, failAt, addFault)} :
                   /\ records' = w.records
                   /\ nextId' = IF w.stored THEN nextId + Len(w.ids) ELSE nextId
                   /\ everStored' = everStored \cup Ids(w.records)
                   /\ lastOp' = [called EXCEPT
                        !.ok = ~w.raised,
                        !.status = chat_status(~w.raised),
                        !.error = IF w.raised THEN "write-back failed" ELSE "",
                        !.response = IF w.raised THEN NoResponse
                                     ELSE ask_response(a, response_text),
                        !.genOk = TRUE,
                        !.generated = response_text,
                        !.stored = w.stored,
                        !.fault = (failAt # 0 \/ addFault),
                        !.ids = w.ids,
                        !.embedCalls = a.embedCalls + w.embedCalls,
                        !.addCalls = w.addCalls]
        /\ asks' = [asks EXCEPT ![p] = Idle]
        /\ UNCHANGED <<discarded, capab, settings, agents, clock, dbExists, dbGen, handle,
                       requests, hist>>

Next ==
    \/ IngestDocument(Files, Metadatas)
    \/ ListMemories
    \/ DeleteMemory
    \/ ClearStore

ScenarioConfig == [CHUNK_SIZE |-> 11, CHUNK_OVERLAP |-> 0]

\* no _build_conversation_history call yet
NoHist ==
    [called |-> FALSE, history |-> <<>>, current_input |-> <<>>, prompt |-> <<>>]

\* EmbeddingGenerator() with EMBEDDINGS_PROVIDER=ollama
\* (loads counts the model loads attempted since construction)
RemoteGenerator == [provider |-> "ollama", model_loaded |-> FALSE, loads |-> 0]

\* EmbeddingGenerator() with the default provider: _model is None
LocalGenerator ==
    [provider |-> "sentence_transformers", model_loaded |-> FALSE, loads |-> 0]

Init ==
    /\ StoreInit({ScenarioConfig})
    /\ requests = <<>>
    /\ hist = NoHist
    /\ generator = RemoteGenerator

\* the store under uploads, listings, deletions and clears
Spec == Init /\ [][Next]_vars

NextAsk ==
    \/ IngestDocument({PdfFile}, {NoMetadata})
    \/ ClearStore
    \/ AskBegin("p1")
    \/ AskResume("p1")

\* one chat request at a time, with uploads and clears around it
SpecAsk == Init /\ [][NextAsk]_vars

(***************************************************************************)
(* The agent registry under POST /agents requests.  A handler has no await *)
(* between its start and its response, so the event loop runs it in one    *)
(* step; requests that have arrived and are not yet handled are concurrent.*)
(***************************************************************************)
AgentRequests ==
    { [agent_id |-> "a1", name |-> "n1", system_prompt |-> "s1", model_override |-> None],
      [agent_id |-> "a1", name |-> "n2", system_prompt |-> "s2", model_override |-> "m1"],
      [agent_id |-> "a2", name |-> "n1", system_prompt |-> "s1", model_override |-> "m1"],
      [agent_id |-> "default", name |-> "n2", system_prompt |-> "s2", model_override |-> None] }

\* a POST /agents request reaches the server
Arrive ==
    \E request \in AgentRequests :
        /\ Len(requests) < MaxRequests
        /\ requests' = Append(requests,
                [request |-> request, status |-> "pending", created_at |-> 0,
                 pendingAtArrival |->
                    {k \in 1..Len(requests) : requests[k].status = "pending"},
                 seen |-> agents, after |-> agents])
        /\ UNCHANGED <<discarded, capab, settings, agents, clock, dbExists, dbGen, records, handle,
                       nextId, asks, lastOp, hist, everStored>>

\* api/agents.py create_agent: agent_manager.create_agent, 400 on its exception
HandleCreate ==
    \E i \in 1..Len(requests) :
        /\ requests[i].status = "pending"
        /\ LET q == requests[i].request
               r == create_agent(q.agent_id, q.name, q.system_prompt,
                                 q.model_override)
           IN /\ agents' = r.agents
              /\ clock' = IF r.ok THEN clock + 1 ELSE clock
              /\ requests' = [requests EXCEPT
                    ![i].status = IF r.ok THEN "200" ELSE "400",
                    ![i].created_at = clock,
                    ![i].seen = agents,
                    ![i].after = r.agents]
        /\ UNCHANGED <<discarded, capab, settings, dbExists, dbGen, records, handle, nextId, asks,
                       lastOp, hist, everStored>>

NextRegistry ==
    \/ Arrive
    \/ HandleCreate

SpecRegistry == Init /\ [][NextRegistry]_vars

(***************************************************************************)
(* The registry under every operation that reads or writes it: creations,  *)
(* lookups, listings and chat requests.                                    *)
(***************************************************************************)
PersonaRequests ==
    { [agent_id |-> "ghost", name |-> "n1", system_prompt |-> "s1", model_override |-> "m1"],
      [agent_id |-> "ghost", name |-> "n2", system_prompt |-> "s2", model_override |-> None],
      [agent_id |-> "default", name |-> "n2", system_prompt |-> "s2", model_override |-> "m1"] }

\* list_agents: one entry for each registered id
list_agents ==
    { [agent_id |-> id, name |-> agents[id].name,
       system_prompt |-> agents[id].system_prompt,
       model_override |-> agents[id].model_override,
       created_at |-> agents[id].created_at] : id \in DOMAIN agents }

\* get_agent: the persona registered under agent_id, or nothing
get_agent(agent_id) ==
    IF agent_id \in DOMAIN agents
    THEN { [agent_id |-> agent_id, name |-> agents[agent_id].name,
            system_prompt |-> agents[agent_id].system_prompt,
            model_override |-> agents[agent_id].model_override,
            created_at |-> agents[agent_id].created_at] }
    ELSE {}

\* POST /agents, handled in one step
CreateAgent ==
    \E q \in PersonaRequests :
        \E r \in {create_agent(q.agent_id, q.name, q.system_prompt,
                               q.model_override)} :
            /\ agents' = r.agents
            /\ clock' = IF r.ok THEN clock + 1 ELSE clock
            /\ lastOp' = [Called("create_agent") EXCEPT
                            !.agent_id = q.agent_id, !.ok = r.ok,
                            !.error = IF r.ok THEN "" ELSE "Agent already exists",
                            !.status = IF r.ok THEN 200 ELSE 400,
                            !.listing = IF r.ok
                                        THEN { [agent_id |-> q.agent_id,
                                                name |-> q.name,
                                                system_prompt |-> q.system_prompt,
                                                model_override |-> q.model_override,
                                                created_at |-> clock] }
                                        ELSE {}]
            /\ UNCHANGED <<discarded, capab, settings, dbExists, dbGen, records, handle,
                           nextId, asks, requests, hist, everStored>>

\* GET /agents
ListAgents ==
    /\ lastOp' = [Called("list_agents") EXCEPT !.status = 200,
                                               !.listing = list_agents]
    /\ UNCHANGED <<discarded, capab, settings, agents, clock, dbExists, dbGen, records,
                   handle, nextId, asks, requests, hist, everStored>>

\* GET /agents/{agent_id}: 404 for an id that is not registered
GetAgent ==
    \E agent_id \in AskAgentIds :
        \E found \in {get_agent(agent_id)} :
            /\ lastOp' = [Called("get_agent") EXCEPT
                            !.agent_id = agent_id, !.ok = found # {},
                            !.error = IF found = {} THEN "Agent not found" ELSE "",
                            !.status = IF found = {} THEN 404 ELSE 200,
                            !.listing = found]
            /\ UNCHANGED <<discarded, capab, settings, agents, clock, dbExists, dbGen,
                           records, handle, nextId, asks, requests, hist,
                           everStored>>

\* a chat request over the empty store
AskEmptyStore == records = <<>> /\ AskBegin("p1")

NextPersonas ==
    \/ CreateAgent
    \/ ListAgents
    \/ GetAgent
    \/ AskEmptyStore
    \/ AskResume("p1")

SpecPersonas == Init /\ [][NextPersonas]_vars

(***************************************************************************)
(* Two chat requests at a time.  ask_agent suspends at the await of         *)
(* generate, where the event loop may run the other request; a second      *)
(* persona with its own model has been registered.                         *)
(***************************************************************************)
\* the registry after POST /agents has registered "ghost" at time 0
TwoAgents ==
    [a \in {"default", "ghost"} |->
        IF a = "default" THEN InitAgents["default"]
        ELSE [name |-> "n1", system_prompt |-> "s1", model_override |-> "m1",
              created_at |-> 0]]

InitTwoAsks ==
    /\ settings = ScenarioConfig
    /\ agents = TwoAgents
    /\ clock = 1
    /\ dbExists = TRUE
    /\ dbGen = 1
    /\ records = <<>>
    /\ handle = 1
    /\ nextId = 1
    /\ asks = [p \in Procs |-> Idle]
    /\ lastOp = NoOp
    /\ everStored = {}
    /\ lastEmbed = NoEmbed
    /\ lastGen = NoGen
    /\ discarded = {}
    /\ requests = <<>>
    /\ hist = NoHist
    /\ generator = RemoteGenerator

\* the agent each of the two clients talks to
AgentOf == [p \in Procs |-> IF p = "p1" THEN "default" ELSE "ghost"]

\* whether client p sends a history with its message
WithHistory == [p \in Procs |-> p = "p2"]

\* a request of client p that passes lookup and retrieval
AskBeginOwn(p) ==
    /\ AskBegin(p)
    /\ asks'[p].pc = "generating"
    /\ asks'[p].agent_id = AgentOf[p]
    /\ (asks'[p].request.history # <<>>) = WithHistory[p]

\* the generation of p's request returns a text
AskResumeAnswered(p) == AskResume(p) /\ lastOp'.genOk

NextTwoAsks ==
    \E p \in Procs :
        \/ AskBeginOwn(p)
        \/ AskResumeAnswered(p)

SpecTwoAsks == InitTwoAsks /\ [][NextTwoAsks]_vars

(***************************************************************************)
(* The prompt assembler on its own inputs.                                 *)
(***************************************************************************)
Turns ==
    { [role |-> "user", content |-> <<"q">>],
      [role |-> "assistant", content |-> <<"r">>],
      [role |-> "system", content |-> <<"s">>] }

Now == <<"n", "o", "w">>

\* one call of _build_conversation_history, the first of the behaviour
BuildHistory ==
    \E n \in 0..MaxHist :
        \E history \in [1..n -> Turns] :
            /\ ~hist.called
            /\ hist' = [called |-> TRUE,
                        history |-> history,
                        current_input |-> Now,
                        prompt |-> build_conversation_history(history, Now)]
            /\ UNCHANGED <<discarded, capab, settings, agents, clock, dbExists, dbGen, records,
                           handle, nextId, asks, lastOp, requests, everStored>>

SpecHistory == Init /\ [][BuildHistory]_vars

(***************************************************************************)
(* Ingestion on its own: ingest_document is a public method, so its caller *)
(* chooses the metadata mapping, and the deployment chooses the chunking   *)
(* configuration.                                                          *)
(***************************************************************************)
\* metadata mappings a caller of ingest_document can pass: an empty one (as
\* the tests do) and one that uses keys ingest_document sets itself
IngestMetadatas ==
    { NoMetadata,
      [chunk_index |-> 7, total_chunks |-> 0, chunk_id |-> <<"chunk", 9>>] }

\* CHUNK_SIZE and CHUNK_OVERLAP as the environment sets them, overlap < size
IngestConfigs ==
    { ScenarioConfig,
      [CHUNK_SIZE |-> 5, CHUNK_OVERLAP |-> 0],
      [CHUNK_SIZE |-> 23, CHUNK_OVERLAP |-> 11] }

InitIngest ==
    /\ StoreInit(IngestConfigs)
    /\ requests = <<>>
    /\ hist = NoHist
    /\ generator = RemoteGenerator

\* the scenario's text file, a one-page pdf and a file of no supported format
IngestFiles == {f \in Files : f.path \in {"hello.txt", "page.pdf", "notes.xyz"}}

NextIngest == IngestDocument(IngestFiles, IngestMetadatas)

SpecIngest == InitIngest /\ [][NextIngest]_vars

(***************************************************************************)
(* The embedding generator on its own, under either provider.              *)
(***************************************************************************)
\* lists of texts given to get_embeddings
EmbedTexts ==
    { <<>>,
      << <<"a">> >>,
      << <<"a">>, <<"b", "c">> >>,
      << <<"b", "c">>, <<"a">>, <<"d", "e", "f">> >> }

\* embedding_generator.get_embeddings(texts)
GetEmbeddings ==
    \E texts \in EmbedTexts, failAt \in 0..MaxChunks,
       loadOk \in BOOLEAN, encodeOk \in BOOLEAN :
        \E r \in {generator_get_embeddings(generator, texts, failAt,
                                            loadOk, encodeOk)} :
            /\ generator.loads + r.loads <= MaxLoads
            /\ generator' = [generator EXCEPT
                                !.model_loaded = r.model_loaded,
                                !.loads = generator.loads + r.loads]
            /\ lastEmbed' = [called |-> TRUE, provider |-> generator.provider,
                             texts |-> texts, failAt |-> failAt,
                             loadOk |-> loadOk, encodeOk |-> encodeOk,
                             loadedBefore |-> generator.model_loaded,
                             ok |-> r.ok, vectors |-> r.vectors,
                             requests |-> r.requests, loads |-> r.loads,
                             encodes |-> r.encodes]
            /\ UNCHANGED <<discarded, settings, agents, clock, dbExists, dbGen, records,
                           handle, nextId, asks, lastOp, requests, hist,
                           everStored, lastGen>>

InitEmbed ==
    /\ StoreInit({ScenarioConfig})
    /\ requests = <<>>
    /\ hist = NoHist
    /\ generator \in {RemoteGenerator, LocalGenerator}

SpecEmbed == InitEmbed /\ [][GetEmbeddings]_vars

(***************************************************************************)
(* Retrieval on its own: queries against a store that uploads fill.        *)
(***************************************************************************)
QueryTexts == { <<"h", "i">>, <<"q", "u", "e", "s", "t", "i", "o">> }

\* top_k as callers give it: ask_agent's 5 and smaller ones
TopKs == {1, 2, TopK}

\* chroma_store.query(query_text, top_k)
QueryStore ==
    \E query_text \in QueryTexts, top_k \in TopKs, failAt \in 0..1,
       fault \in BOOLEAN, distances \in BOOLEAN :
        \E r \in {query(query_text, top_k, failAt, fault, distances)} :
            /\ lastOp' = [Called("query") EXCEPT
                             !.query_text = query_text, !.top_k = top_k,
                             !.distances = distances, !.fault = fault,
                             !.ok = r.ok, !.hits = r.hits,
                             !.embedCalls = r.embedCalls,
                             !.queryCalls = r.queryCalls]
            /\ UNCHANGED <<discarded, capab, settings, agents, clock, dbExists, dbGen,
                           records, handle, nextId, asks, requests, hist,
                           everStored>>

NextQuery ==
    \/ IngestDocument({f \in Files : f.path \in {"hello.txt", "page.pdf"}},
                      {NoMetadata})
    \/ QueryStore

SpecQuery == Init /\ [][NextQuery]_vars

(***************************************************************************)
(* OllamaClient.generate.  The body of generate holds a `yield` (the       *)
(* streaming branch), which makes the function an async generator, and a   *)
(* `return` with a value (the non-streaming branch), which an async        *)
(* generator may not have: the compiler rejects the module                 *)
(* ("'return' with value in async generator"), so importing it raises      *)
(* SyntaxError and no call of generate runs any of its body.               *)
(***************************************************************************)
\* `yield data["response"]` in the body of generate
GenerateHasYield == TRUE

\* `return data.get("response", "")` in the body of generate
GenerateReturnsValue == TRUE

\* whether core/ollama_client.py compiles
ModuleCompiles == ~(GenerateHasYield /\ GenerateReturnsValue)

\* model = model_name or self.model, and the payload of the request
generate_payload(prompt, model_name, stream, system_prompt) ==
    [model |-> IF model_name \in {None, ""} THEN OLLAMA_MODEL ELSE model_name,
     prompt |-> prompt,
     stream |-> stream,
     system |-> system_prompt]

\* the try block of generate with stream=False and its except clauses: one
\* POST to /api/generate; transport is what becomes of the request, reply
\* whether the JSON reply has a "response" field, text that field
generate_request(transport, reply, text) ==
    CASE transport = "timeout" ->
            [outcome |-> "raised", error |-> "Request timed out",
             text |-> <<>>, requests |-> 1]
      [] transport = "status" ->
            [outcome |-> "raised", error |-> "Ollama API error",
             text |-> <<>>, requests |-> 1]
      [] transport = "error" ->
            [outcome |-> "raised", error |-> "Failed to generate response",
             text |-> <<>>, requests |-> 1]
      [] OTHER ->
            [outcome |-> "returned", error |-> "",
             text |-> IF reply = "response" THEN text ELSE <<>>,
             requests |-> 1]

\* `await ollama_client.generate(..., stream=False)` as the caller sees it
generate(transport, reply, text) ==
    IF ModuleCompiles
    THEN generate_request(transport, reply, text)
    ELSE [outcome |-> "raised", error |-> "SyntaxError",
          text |-> <<>>, requests |-> 0]

Prompts == { <<"h", "i">>, <<"u", "s", "e", "r", ":", " ", "h", "i">> }

SystemPrompts == { <<>>, <<"b", "e", " ", "b", "r", "i", "e", "f">> }

ModelNames == { None, "llama3" }

\* what becomes of the request: answered with status 200, timed out,
\* answered with an error status, failed otherwise (connection refused)
Transports == {"ok", "timeout", "status", "error"}

\* the JSON reply: with its "response" field or without it
Replies == {"response", "no response"}

\* a non-streaming generate call, awaited
Generate ==
    \E prompt \in Prompts, system_prompt \in SystemPrompts,
       model_name \in ModelNames, transport \in Transports,
       reply \in Replies, text \in Answers :
        \E r \in {generate(transport, reply, text)} :
            /\ lastGen' = [called |-> TRUE, stream |-> FALSE,
                           payload |-> generate_payload(prompt, model_name,
                                                        FALSE, system_prompt),
                           transport |-> transport, reply |-> reply,
                           reply_text |-> text,
                           outcome |-> r.outcome, error |-> r.error,
                           text |-> r.text, requests |-> r.requests,
                           lines |-> <<>>, fragments |-> <<>>,
                           probe |-> "", healthy |-> FALSE]
            /\ UNCHANGED <<discarded, settings, agents, clock, dbExists, dbGen, records,
                           handle, nextId, asks, lastOp, requests, hist,
                           everStored, generator, lastEmbed>>

\* a line of the streamed reply: blank, not JSON, or a JSON object with or
\* without a "response" field and with or without a true "done" flag
StreamLine(kind, has_response, response, done) ==
    [kind |-> kind, has_response |-> has_response, response |-> response,
     done |-> done]

StreamLines ==
    { StreamLine("blank", FALSE, <<>>, FALSE),
      StreamLine("malformed", FALSE, <<>>, FALSE),
      StreamLine("json", TRUE, <<"a">>, FALSE),
      StreamLine("json", TRUE, <<"b">>, TRUE),
      StreamLine("json", FALSE, <<>>, TRUE) }

\* the line sequences of a streamed reply
Streams == UNION { [1..n -> StreamLines] : n \in 0..MaxLines }

\* the `async for line in response.aiter_lines()` loop: a blank line and a
\* line json.loads rejects are passed over, a "response" field is yielded,
\* a true "done" flag ends the loop
RECURSIVE stream_fragments(_)
stream_fragments(lines) ==
    IF lines = <<>> THEN <<>>
    ELSE LET line == Head(lines) IN
         IF line.kind # "json" THEN stream_fragments(Tail(lines))
         ELSE (IF line.has_response THEN <<line.response>> ELSE <<>>)
              \o (IF line.done THEN <<>>
                  ELSE stream_fragments(Tail(lines)))

\* the try block of generate with stream=True and its except clauses: one
\* streamed POST to /api/generate, whose lines are read when the status is
\* not an error
stream_request(transport, lines) ==
    CASE transport = "timeout" ->
            [outcome |-> "raised", error |-> "Request timed out",
             fragments |-> <<>>, requests |-> 1]
      [] transport = "status" ->
            [outcome |-> "raised", error |-> "Ollama API error",
             fragments |-> <<>>, requests |-> 1]
      [] transport = "error" ->
            [outcome |-> "raised", error |-> "Failed to generate response",
             fragments |-> <<>>, requests |-> 1]
      [] OTHER ->
            [outcome |-> "returned", error |-> "",
             fragments |-> stream_fragments(lines), requests |-> 1]

\* `async for fragment in ollama_client.generate(..., stream=True)` as the
\* caller sees it
generate_stream(transport, lines) ==
    IF ModuleCompiles
    THEN stream_request(transport, lines)
    ELSE [outcome |-> "raised", error |-> "SyntaxError",
          fragments |-> <<>>, requests |-> 0]

\* a streaming generate call, iterated to its end
GenerateStream ==
    \E prompt \in Prompts, transport \in Transports, lines \in Streams :
        \E r \in {generate_stream(transport, lines)} :
            /\ lastGen' = [called |-> TRUE, stream |-> TRUE,
                           payload |-> generate_payload(prompt, None, TRUE,
                                                        <<>>),
                           transport |-> transport, reply |-> "",
                           reply_text |-> <<>>,
                           outcome |-> r.outcome, error |-> r.error,
                           text |-> <<>>, requests |-> r.requests,
                           lines |-> lines, fragments |-> r.fragments,
                           probe |-> "", healthy |-> FALSE]
            /\ UNCHANGED <<discarded, settings, agents, clock, dbExists, dbGen, records,
                           handle, nextId, asks, lastOp, requests, hist,
                           everStored, generator, lastEmbed>>

\* what becomes of GET /api/tags: answered with a status, or failed
\* (connection refused, timed out)
Probes == {"200", "404", "500", "refused", "timeout"}

\* the body of health_check: the status is compared with 200, every
\* exception is caught and answered with False
health_check_probe(probe) ==
    [outcome |-> "returned", error |-> "", healthy |-> probe = "200",
     requests |-> 1]

\* `await ollama_client.health_check()` as the caller sees it
health_check(probe) ==
    IF ModuleCompiles
    THEN health_check_probe(probe)
    ELSE [outcome |-> "raised", error |-> "SyntaxError", healthy |-> FALSE,
          requests |-> 0]

\* a health_check call, awaited
HealthCheck ==
    \E probe \in Probes :
        \E r \in {health_check(probe)} :
            /\ lastGen' = [NoGen EXCEPT !.called = TRUE, !.probe = probe,
                                        !.outcome = r.outcome,
                                        !.error = r.error,
                                        !.healthy = r.healthy,
                                        !.requests = r.requests]
            /\ UNCHANGED <<discarded, settings, agents, clock, dbExists, dbGen, records,
                           handle, nextId, asks, lastOp, requests, hist,
                           everStored, generator, lastEmbed>>

NextGenerate == Generate \/ GenerateStream \/ HealthCheck

SpecGenerate == Init /\ [][NextGenerate]_vars

(***************************************************************************)
(* Properties.                                                             *)
(***************************************************************************)
Listed == list_memories(FALSE).memories

ListedIds == {Listed[i].id : i \in 1..Len(Listed)}

SeqToSet(q) == {q[i] : i \in 1..Len(q)}

\* C1: whenever generation succeeded, ask_agent returns normally whatever
\* became of the write-back (chunking, embedding or add failing), and the
\* answer returned is the text that generation produced.
C1_WriteBackFailureSwallowed ==
    (lastOp.op = "ask" /\ lastOp.genOk) =>
        /\ lastOp.ok
        /\ lastOp.response.answer = lastOp.generated

\* an ask that returned a non-empty answer although its write-back stored nothing
C1_Witness ==
    /\ lastOp.op = "ask"
    /\ lastOp.genOk
    /\ ~lastOp.stored
    /\ lastOp.ok
    /\ lastOp.generated # <<>>

\* C2: a create_agent for an agent_id already in the registry fails and leaves
\* the registry as it was: same ids, same personas.
C2_DuplicateRejectedUnchanged ==
    \A i \in 1..Len(requests) :
        (requests[i].status # "pending"
         /\ requests[i].request.agent_id \in DOMAIN requests[i].seen) =>
            /\ requests[i].status = "400"
            /\ requests[i].after = requests[i].seen

\* a duplicate of a persona registered earlier in the behaviour was rejected
C2_Witness ==
    \E i \in 1..Len(requests) :
        /\ requests[i].status = "400"
        /\ requests[i].request.agent_id \in DOMAIN requests[i].seen
        /\ requests[i].request.agent_id # "default"
        /\ requests[i].seen[requests[i].request.agent_id].name
              # requests[i].request.name

Handled(a) ==
    {i \in 1..Len(requests) :
        requests[i].request.agent_id = a /\ requests[i].status # "pending"}

Winners(a) == {i \in Handled(a) : requests[i].status = "200"}

\* C3: of the requests that carry the same new agent_id, however they overlap,
\* exactly one succeeds, every other one fails as a duplicate, and the persona
\* stored is the one the successful request supplied.
C3_RegistrationAtomic ==
    \A a \in {q.agent_id : q \in AgentRequests} \ DOMAIN InitAgents :
        Handled(a) # {} =>
            /\ Cardinality(Winners(a)) = 1
            /\ \A i \in Handled(a) \ Winners(a) : requests[i].status = "400"
            /\ a \in DOMAIN agents
            /\ \A i \in Winners(a) :
                  agents[a] = [name |-> requests[i].request.name,
                               system_prompt |-> requests[i].request.system_prompt,
                               model_override |-> requests[i].request.model_override,
                               created_at |-> requests[i].created_at]

\* two requests for the same new id were both waiting at once, and both are
\* handled now
C3_Witness ==
    \E i, j \in 1..Len(requests) :
        /\ i \in requests[j].pendingAtArrival
        /\ requests[i].request.agent_id = requests[j].request.agent_id
        /\ requests[i].request # requests[j].request
        /\ requests[i].request.agent_id \notin DOMAIN InitAgents
        /\ requests[i].status # "pending"
        /\ requests[j].status # "pending"
        /\ requests[j].status = "200"

\* C4: with no history the prompt is the input alone; otherwise it is the last
\* min(n, 5) turns in their order, each as "<role>: <content>", and then
\* "user: <current_input>" as the last line, and nothing else.
C4_HistoryWindow ==
    hist.called =>
        LET h == hist.history
            n == Len(h)
            w == Min(n, 5)
            prompt == hist.prompt
        IN IF n = 0
           THEN prompt = << [label |-> "", content |-> hist.current_input] >>
           ELSE /\ Len(prompt) = w + 1
                /\ \A k \in 1..w :
                      prompt[k] = [label |-> h[n - w + k].role,
                                   content |-> h[n - w + k].content]
                /\ prompt[w + 1] = [label |-> "user",
                                    content |-> hist.current_input]

\* a history longer than the window, whose dropped turns differ from the kept
C4_Witness ==
    /\ hist.called
    /\ Len(hist.history) > 5
    /\ hist.history[1] # hist.history[Len(hist.history) - 4]
    /\ Len(hist.prompt) = 6

\* C5: an ask for a registered agent whose retrieval ran on a store without
\* records gives generation a system prompt stating that no relevant documents
\* were found, and returns no sources.
C5_EmptyStoreContext ==
    /\ \A p \in Procs :
          (asks[p].pc = "generating" /\ asks[p].storeCount = 0) =>
              asks[p].system_prompt.context =
                  [statement |-> NoDocsStatement, entries |-> <<>>]
    /\ (lastOp.op = "ask" /\ lastOp.ok /\ lastOp.storeCount = 0) =>
          /\ lastOp.response.system_prompt.context.statement = NoDocsStatement
          /\ lastOp.response.sources = <<>>

\* an ask on the empty store has returned
C5_Witness ==
    /\ lastOp.op = "ask"
    /\ lastOp.ok
    /\ lastOp.storeCount = 0
    /\ lastOp.agent_id = "default"

\* C6: delete_memory returns true exactly when a record with the id existed
\* before the call, and then the listing no longer has the id; it returns
\* false when there was no such record.
C6_DeleteReportsExistence ==
    lastOp.op = "delete" =>
        /\ lastOp.returned = (lastOp.memory_id \in Ids(lastOp.before))
        /\ lastOp.returned => lastOp.memory_id \notin ListedIds

\* C7: after a clear_store that returned true the listing is empty whatever
\* was stored before, an ingest that follows succeeds, and its records are
\* listed under ids that no record had before.
C7_ClearThenFresh ==
    /\ (lastOp.op = "clear" /\ lastOp.returned) =>
          /\ list_memories(FALSE).ok
          /\ Listed = <<>>
          /\ \A file \in {f \in Files : f.path \in {"hello.txt", "page.pdf"}} :
                LET r == ingest_document(file, NoMetadata, TRUE, 0, FALSE) IN
                /\ r.ok
                /\ SeqToSet(r.ids) \cap everStored = {}
                /\ SeqToSet(r.ids) \subseteq Ids(r.records)
    /\ (lastOp.op = "ingest" /\ lastOp.ok /\ dbGen > 1) =>
          /\ SeqToSet(lastOp.ids) \cap lastOp.everBefore = {}
          /\ SeqToSet(lastOp.ids) \subseteq ListedIds

\* an ingest succeeded after a clear that emptied a store holding records
C7_Witness ==
    /\ lastOp.op = "ingest"
    /\ lastOp.ok
    /\ dbGen > 1
    /\ lastOp.everBefore # {}
    /\ lastOp.before = <<>>

\* C8: clear_store is atomic: after it, whether it returned true or false, the
\* adapter holds either the collection it held before or a new empty one,
\* never a handle to a collection that was discarded and not recreated.
C8_ClearAtomic ==
    lastOp.op = "clear" =>
        \/ (HandleValid /\ records = lastOp.before /\ ~lastOp.returned)
        \/ (HandleValid /\ records = <<>> /\ lastOp.returned)
        \/ (~lastOp.beforeValid /\ ~lastOp.returned)

\* the text the reader of a file yields
TextOf(file) ==
    IF Lower(file.ext) = ".txt" THEN file.body[1] ELSE ConcatLines(file.body)

Rejected(file) ==
    \/ Lower(file.ext) \notin {".txt", ".pdf", ".docx", ".doc"}
    \/ Strip(TextOf(file)) = <<>>

\* C9: ingest_document of a file with an unsupported extension, or whose text
\* is empty or only whitespace, fails without a side effect: no embedding
\* request, no add, the store as before.
C9_InvalidFileNoSideEffect ==
    (lastOp.op = "ingest" /\ Rejected(lastOp.file)) =>
        /\ ~lastOp.ok
        /\ lastOp.embedCalls = 0
        /\ lastOp.addCalls = 0
        /\ records = lastOp.before

\* a rejected file was offered to a store that holds records
C9_Witness ==
    /\ lastOp.op = "ingest"
    /\ Rejected(lastOp.file)
    /\ ~lastOp.ok
    /\ lastOp.before # <<>>

\* C10: an ingest_document that fails in embedding or in the store add leaves
\* the store as it was, and one that succeeds has added every chunk: all of a
\* document's chunks or none.
C10_AllOrNothing ==
    lastOp.op = "ingest" =>
        IF lastOp.ok
        THEN /\ Len(records) = Len(lastOp.before) + lastOp.chunks
             /\ SubSeq(records, 1, Len(lastOp.before)) = lastOp.before
             /\ lastOp.chunks = Len(lastOp.ids)
             /\ lastOp.chunks >= 1
        ELSE records = lastOp.before

\* the embedding of a document's second chunk failed after its first succeeded
C10_Witness ==
    /\ lastOp.op = "ingest"
    /\ ~lastOp.ok
    /\ lastOp.embedCalls = 2
    /\ lastOp.beforeValid

\* the records the last call appended to the collection
Added == SubSeq(records, Len(lastOp.before) + 1, Len(records))

\* C11: the n records of a successful ingestion carry chunk_index 0..n-1 in
\* chunk order, total_chunks n and chunk_id "chunk_<chunk_index>", whatever
\* metadata mapping the caller supplied.
C11_ChunkIndexContiguous ==
    (lastOp.op = "ingest" /\ lastOp.ok) =>
        \A k \in 1..Len(Added) :
            /\ Added[k].metadata.chunk_index = k - 1
            /\ Added[k].metadata.total_chunks = Len(Added)
            /\ Added[k].metadata.chunk_id = <<"chunk", k - 1>>

\* C12: a successful ingest_document issues one store add, which holds one
\* id, one embedding, one text and one metadata per chunk; chunks_created is
\* that number and the store grows by it.  The text "hello world\nhello again"
\* with chunk_size 11 and overlap 0 gives the chunks "hello world" and
\* "hello again".
C12_OneAddOfAllChunks ==
    (lastOp.op = "ingest" /\ lastOp.ok) =>
        /\ lastOp.addCalls = 1
        /\ lastOp.chunks = Len(Added)
        /\ Len(records) = Len(lastOp.before) + lastOp.chunks
        /\ SubSeq(records, 1, Len(lastOp.before)) = lastOp.before
        /\ lastOp.embedCalls = lastOp.chunks
        /\ [k \in 1..Len(Added) |-> Added[k].id] = lastOp.ids
        /\ Cardinality(Ids(Added)) = lastOp.chunks
        /\ \A k \in 1..Len(Added) :
              /\ Added[k].embedding = <<Len(Added[k].text)>>
              /\ Added[k].metadata.filename = lastOp.file.path
        /\ (lastOp.file.path = "hello.txt" /\ settings = ScenarioConfig) =>
              [k \in 1..Len(Added) |-> Added[k].text] =
                 << <<"h", "e", "l", "l", "o", " ", "w", "o", "r", "l", "d">>,
                    <<"h", "e", "l", "l", "o", " ", "a", "g", "a", "i", "n">> >>

\* the scenario's file was ingested into a store that already held records
C12_Witness ==
    /\ lastOp.op = "ingest"
    /\ lastOp.ok
    /\ lastOp.file.path = "hello.txt"
    /\ settings = ScenarioConfig
    /\ lastOp.chunks = 2
    /\ lastOp.before # <<>>

\* C13: every chunk an ingestion stores is at most CHUNK_SIZE characters
\* long, also when the text has a run without a newline that is longer.
C13_ChunksWithinSize ==
    (lastOp.op = "ingest" /\ lastOp.ok) =>
        \A k \in 1..Len(Added) : Len(Added[k].text) <= settings.CHUNK_SIZE

\* C14: get_embeddings([]) returns [] under both providers, sends no remote
\* request, does not invoke the local model and does not load it.
C14_EmptyInputNoBackend ==
    (lastEmbed.called /\ lastEmbed.texts = <<>>) =>
        /\ lastEmbed.ok
        /\ lastEmbed.vectors = <<>>
        /\ lastEmbed.requests = <<>>
        /\ lastEmbed.encodes = 0
        /\ lastEmbed.loads = 0
        /\ generator.model_loaded = lastEmbed.loadedBefore

\* an empty list was given to a local generator whose model is not loaded and
\* could not be
C14_Witness ==
    /\ lastEmbed.called
    /\ lastEmbed.texts = <<>>
    /\ lastEmbed.provider = "sentence_transformers"
    /\ ~lastEmbed.loadedBefore
    /\ ~lastEmbed.loadOk

\* C15: get_embeddings returns one vector per text in the order of the texts,
\* or fails and returns none; the remote provider is sent one request per text
\* in order, and after a failed request no further text is requested.
C15_EmbedAllOrNothing ==
    lastEmbed.called =>
        LET texts == lastEmbed.texts
            n == Len(texts)
        IN
        /\ IF lastEmbed.ok
           THEN /\ Len(lastEmbed.vectors) = n
                /\ \A i \in 1..n : lastEmbed.vectors[i] = <<Len(texts[i])>>
           ELSE lastEmbed.vectors = <<>>
        /\ lastEmbed.provider = "ollama" =>
              /\ lastEmbed.ok = (lastEmbed.failAt \notin 1..n)
              /\ lastEmbed.requests =
                    IF lastEmbed.failAt \in 1..n
                    THEN SubSeq(texts, 1, lastEmbed.failAt)
                    ELSE texts
        /\ lastEmbed.provider # "ollama" => lastEmbed.requests = <<>>

\* the remote request for the second of three texts failed
C15_Witness ==
    /\ lastEmbed.called
    /\ lastEmbed.provider = "ollama"
    /\ Len(lastEmbed.texts) = 3
    /\ lastEmbed.failAt = 2
    /\ ~lastEmbed.ok
    /\ Len(lastEmbed.requests) = 2

\* what the collection returns for the last query, nearest first
StoreReply ==
    collection_query(<<Len(lastOp.query_text)>>, lastOp.top_k, FALSE)

\* C16: a query that returns gives one hit {text, metadata, distance} per
\* document the store returned, in the store's order (ascending distance), at
\* most top_k of them; on a collection without records it returns the empty
\* list and no error; a hit's distance is 0 when the store's reply has no
\* distances.
C16_QueryHits ==
    lastOp.op = "query" =>
        /\ (lastOp.queryCalls = 1 /\ ~lastOp.fault /\ lastOp.beforeValid) =>
              lastOp.ok
        /\ lastOp.ok =>
              /\ Len(lastOp.hits) = Len(StoreReply.documents[1])
              /\ Len(lastOp.hits) <= lastOp.top_k
              /\ records = <<>> => lastOp.hits = <<>>
              /\ \A i \in 1..Len(lastOp.hits) :
                    /\ lastOp.hits[i].text = StoreReply.documents[1][i]
                    /\ lastOp.hits[i].metadata = StoreReply.metadatas[1][i]
                    /\ lastOp.hits[i].distance =
                          IF lastOp.distances
                          THEN StoreReply.distances[1][i]
                          ELSE 0
              /\ \A i \in 1..(Len(lastOp.hits) - 1) :
                    lastOp.hits[i].distance <= lastOp.hits[i + 1].distance

\* two hits at different distances were returned from a store holding more
\* records than top_k
C16_Witness ==
    /\ lastOp.op = "query"
    /\ lastOp.ok
    /\ lastOp.top_k = 2
    /\ Len(records) > 2
    /\ Len(lastOp.hits) = 2
    /\ lastOp.hits[1].distance < lastOp.hits[2].distance

\* C17: an ask for an agent_id that is not registered fails before any side
\* effect: no embedding of the query, no store query, no generation request,
\* no write-back, and the store is as it was.
C17_UnknownAgentNoSideEffect ==
    (lastOp.op = "ask" /\ lastOp.agent_id \notin DOMAIN agents) =>
        /\ ~lastOp.ok
        /\ lastOp.embedCalls = 0
        /\ lastOp.queryCalls = 0
        /\ lastOp.genCalls = 0
        /\ lastOp.addCalls = 0
        /\ ~lastOp.stored
        /\ records = lastOp.before
        /\ lastOp.response = NoResponse

\* an unknown agent was asked while the store held records
C17_Witness ==
    /\ lastOp.op = "ask"
    /\ lastOp.agent_id = "ghost"
    /\ ~lastOp.ok
    /\ lastOp.before # <<>>

\* the two kinds of failure of an ask
ValidationFailure(op) == op.op = "ask" /\ ~op.ok /\ op.error = "Agent not found"

CapabilityFailure(op) ==
    op.op = "ask" /\ ~op.ok /\ op.error \in {"Query failed", "generation failed"}

\* C18: the caller of /chat sees an unknown agent id as a rejected request,
\* with a signal other than the one it sees for a failure of embedding, store
\* or generation: a validation failure and a capability failure never carry
\* the same status.
C18_DistinctSignals ==
    [][(ValidationFailure(lastOp) /\ CapabilityFailure(lastOp')) =>
          lastOp.status # lastOp'.status]_vars

\* C19: a generation request that times out makes generate raise the
\* "Request timed out" error, which the error for an HTTP error status and the
\* error for any other request failure are not; after a timeout generate never
\* returns a text.
C19_TimeoutDistinct ==
    lastGen.called =>
        /\ lastGen.transport = "timeout" =>
              /\ lastGen.outcome = "raised"
              /\ lastGen.error = "Request timed out"
        /\ lastGen.transport \in {"status", "error"} =>
              /\ lastGen.outcome = "raised"
              /\ lastGen.error # "Request timed out"

\* C20: a generate call with stream=False that the caller awaits issues one
\* request to the generation service and returns the reply's "response" text,
\* or the empty string when the reply has no such field, with and without a
\* system prompt.
C20_NonStreamingReturnsText ==
    (lastGen.called /\ ~lastGen.stream /\ lastGen.transport = "ok") =>
        /\ lastGen.requests = 1
        /\ lastGen.outcome = "returned"
        /\ lastGen.text = IF lastGen.reply = "response"
                          THEN lastGen.reply_text
                          ELSE <<>>

\* the lines of a stream up to and including its first line with a true
\* "done" flag
RECURSIVE UntilDone(_)
UntilDone(lines) ==
    IF lines = <<>> THEN <<>>
    ELSE IF Head(lines).kind = "json" /\ Head(lines).done THEN <<Head(lines)>>
    ELSE <<Head(lines)>> \o UntilDone(Tail(lines))

CarriesFragment(line) == line.kind = "json" /\ line.has_response

\* C21: a generate call with stream=True whose request is answered yields, in
\* the order of arrival, the "response" field of every well-formed line up to
\* and including the first line whose "done" flag is true, and nothing from a
\* blank line, a malformed line or a line after that one.
C21_StreamYieldsFragments ==
    (lastGen.called /\ lastGen.stream /\ lastGen.transport = "ok") =>
        \E kept \in {SelectSeq(UntilDone(lastGen.lines), CarriesFragment)} :
            lastGen.fragments = [i \in 1..Len(kept) |-> kept[i].response]

\* C22: health_check never raises: it returns true exactly when the probe of
\* the generation service is answered with status 200, and false for any
\* other status and for a probe that fails.
C22_HealthCheckNeverRaises ==
    (lastGen.called /\ lastGen.probe # "") =>
        /\ lastGen.outcome = "returned"
        /\ lastGen.healthy = (lastGen.probe = "200")

\* C23: under creations, lookups, listings and chat requests the registry
\* always holds "default" with the persona it was constructed with, and a step
\* never removes a registered id or changes its name, system prompt, model
\* override or creation time.
C23_PersonasImmutable ==
    /\ [](/\ "default" \in DOMAIN agents
          /\ agents["default"] = InitAgents["default"])
    /\ [][\A id \in DOMAIN agents :
            /\ id \in DOMAIN agents'
            /\ agents'[id] = agents[id]]_vars

\* a creation under a registered id was refused after a chat request with
\* that persona, and the persona is listed as it was created
C23_Witness ==
    /\ lastOp.op = "create_agent"
    /\ lastOp.agent_id = "ghost"
    /\ ~lastOp.ok
    /\ "ghost" \in DOMAIN agents
    /\ \E i \in 1..Len(records) : records[i].metadata.agent_id = "ghost"

\* the metadata keys the store promises for every record
ProvenanceKeys == {"filename", "chunk_id", "chunk_index", "total_chunks"}

\* C24: every record in the store, written by an upload or by the write-back
\* of a chat request, has a metadata mapping with at least the keys filename,
\* chunk_id, chunk_index and total_chunks.
C24_ProvenanceKeys ==
    \A i \in 1..Len(records) : ProvenanceKeys \subseteq DOMAIN records[i].metadata

\* C25: with the local backend the model load is attempted at most once over
\* all get_embeddings calls of a process, a call after a failed load included.
C25_LoadAttemptedOnce ==
    generator.provider = "sentence_transformers" => generator.loads <= 1

\* the write-back of the last chat request was attempted: more embedding
\* requests than the one of retrieval, or an add
WriteBackAttempted(op) == op.embedCalls > 1 \/ op.addCalls > 0 \/ op.stored

\* C26: the stages of a chat request are gated in order.  Generation is
\* requested only for a registered agent whose retrieval query was answered;
\* the write-back is attempted only after generation returned a text; a
\* request whose lookup, retrieval or generation fails raises, requests no
\* later stage and leaves the store as it was.
C26_StagesGated ==
    /\ [](/\ \A p \in Procs : asks[p].pc = "generating" =>
                /\ asks[p].agent_id \in DOMAIN agents
                /\ asks[p].embedCalls = 1
                /\ asks[p].queryCalls = 1
          /\ lastOp.op = "ask" =>
                /\ lastOp.genCalls = 1 =>
                      /\ lastOp.agent_id \in DOMAIN agents
                      /\ lastOp.queryCalls = 1
                /\ WriteBackAttempted(lastOp) => lastOp.genOk
                /\ lastOp.error = "Agent not found" =>
                      lastOp.queryCalls = 0 /\ lastOp.embedCalls = 0
                /\ lastOp.error \in {"Agent not found", "Query failed"} =>
                      lastOp.genCalls = 0
                /\ ~lastOp.genOk =>
                      /\ ~lastOp.ok
                      /\ lastOp.response = NoResponse
                      /\ ~WriteBackAttempted(lastOp))
    /\ [][(lastOp' # lastOp /\ lastOp'.op = "ask" /\ ~lastOp'.genOk) =>
            records' = records]_vars

\* generation failed for a request whose retrieval had found records
C26_Witness ==
    /\ lastOp.op = "ask"
    /\ lastOp.error = "generation failed"
    /\ lastOp.genCalls = 1
    /\ lastOp.before # <<>>
    /\ records = lastOp.before

\* C27: nothing is retried.  One chat request makes at most one retrieval
\* query to the store, at most one generation request and at most one
\* write-back add; one upload makes at most one add.
C27_NoRetries ==
    /\ \A p \in Procs : asks[p].pc = "generating" => asks[p].queryCalls <= 1
    /\ lastOp.op = "ask" =>
          /\ lastOp.queryCalls <= 1
          /\ lastOp.genCalls <= 1
          /\ lastOp.addCalls <= 1
    /\ lastOp.op = "ingest" => lastOp.addCalls <= 1

\* a chat request that went through every stage and wrote two chunks back
C27_Witness ==
    /\ lastOp.op = "ask"
    /\ lastOp.ok
    /\ lastOp.stored
    /\ Len(lastOp.ids) = 2
    /\ lastOp.queryCalls = 1
    /\ lastOp.genCalls = 1
    /\ lastOp.addCalls = 1

\* C28: with two chat requests in flight, in any interleaving of their steps,
\* a request that returns gives the answer generated for it, the prompt built
\* from its own message and history, the sources and the context of its own
\* retrieval, and the model of its own agent.
C28_OwnAnswerSourcesModel ==
    (lastOp.op = "ask" /\ lastOp.ok) =>
        \E own \in {HitsOver(lastOp.seen, lastOp.request.message)} :
            /\ lastOp.response.answer = lastOp.generated
            /\ lastOp.response.prompt =
                  build_conversation_history(lastOp.request.history,
                                             lastOp.request.message)
            /\ lastOp.response.sources = format_sources(own)
            /\ lastOp.response.system_prompt =
                  build_system_prompt(agents[lastOp.agent_id].system_prompt,
                                      build_context(own))
            /\ lastOp.response.model = model_name_of(agents[lastOp.agent_id])

\* a request returned while the other one, for another agent, with another
\* message and a retrieval over another store content, awaits its generation
C28_Witness ==
    /\ lastOp.op = "ask"
    /\ lastOp.ok
    /\ lastOp.response.sources # <<>>
    /\ \E q \in Procs \ {lastOp.proc} :
          /\ asks[q].pc = "generating"
          /\ asks[q].agent_id # lastOp.agent_id
          /\ asks[q].request # lastOp.request
          /\ asks[q].seen # lastOp.seen

\* source s renders record r of the store
SourceOf(s, r) ==
    /\ s.text = Truncate(r.text, SourceChars)
    /\ s.filename = MetaGet(r.metadata, "filename")
    /\ s.chunk_id = MetaGet(r.metadata, "chunk_id")

\* C29: within one chat request retrieval runs before the write-back.  The
\* store its retrieval ran against is the beginning of the store its
\* write-back found, none of the records it wrote is in either, and its sources
\* and its context render records of the store its retrieval ran against, as
\* many as that store can give and never more.
C29_RetrievalBeforeWriteBack ==
    /\ \A p \in Procs : asks[p].pc = "generating" =>
          /\ Len(asks[p].seen) <= Len(records)
          /\ asks[p].seen = SubSeq(records, 1, Len(asks[p].seen))
          /\ Len(asks[p].relevant_docs) = Min(TopK, Len(asks[p].seen))
    /\ (lastOp.op = "ask" /\ lastOp.ok) =>
          /\ Len(lastOp.seen) <= Len(lastOp.before)
          /\ lastOp.seen = SubSeq(lastOp.before, 1, Len(lastOp.seen))
          /\ SeqToSet(lastOp.ids) \cap Ids(lastOp.before) = {}
          /\ Len(lastOp.response.sources) = Min(TopK, Len(lastOp.seen))
          /\ Len(lastOp.response.system_prompt.context.entries)
                = Len(lastOp.response.sources)
          /\ \A i \in 1..Len(lastOp.response.sources) :
                \E k \in 1..Len(lastOp.seen) :
                    SourceOf(lastOp.response.sources[i], lastOp.seen[k])

\* a request wrote its exchange back while the other request, whose
\* retrieval had run before, awaits its generation; the sources of the first
\* are records of earlier exchanges
C29_Witness ==
    /\ lastOp.op = "ask"
    /\ lastOp.ok
    /\ lastOp.stored
    /\ lastOp.response.sources # <<>>
    /\ SeqToSet(lastOp.ids) \subseteq Ids(records)
    /\ \E q \in Procs \ {lastOp.proc} :
          /\ asks[q].pc = "generating"
          /\ SeqToSet(lastOp.ids) \cap Ids(asks[q].seen) = {}
          /\ Len(asks[q].seen) < Len(lastOp.before)

\* C30: a chat request that is suspended on its generation while clear_store
\* succeeds writes its exchange back through the handle of the recreated
\* collection: the handle is the current one, the request returns its answer,
\* a write-back that no capability fails adds the records of the exchange to
\* the new collection under ids no record had before, and no record the
\* store holds afterwards is one that a clear discarded.
C30_WriteBackAfterClear ==
    /\ [](/\ Ids(records) \cap discarded = {}
          /\ (lastOp.op = "ask" /\ lastOp.genOk /\ lastOp.existed
                /\ lastOp.beginGen < lastOp.gen) =>
                /\ lastOp.beforeValid
                /\ lastOp.ok
                /\ lastOp.response.answer = lastOp.generated
                /\ ~lastOp.fault => lastOp.stored
                /\ lastOp.stored =>
                      /\ lastOp.ids # <<>>
                      /\ SeqToSet(lastOp.ids) \cap lastOp.everBefore = {}
                      /\ SeqToSet(lastOp.ids) \cap Ids(lastOp.seen) = {})
    /\ [][(lastOp' # lastOp /\ lastOp'.op = "ask" /\ lastOp'.stored) =>
            /\ Len(records') = Len(records) + Len(lastOp'.ids)
            /\ SubSeq(records', 1, Len(records)) = records
            /\ \A i \in 1..Len(lastOp'.ids) :
                  records'[Len(records) + i].id = lastOp'.ids[i]]_vars

\* the retrieval of a request found records, a clear discarded them while
\* the request awaited its generation, and the store now holds the records of
\* the request's exchange and nothing else
C30_Witness ==
    /\ lastOp.op = "ask"
    /\ lastOp.ok
    /\ lastOp.stored
    /\ lastOp.beginGen < lastOp.gen
    /\ lastOp.seen # <<>>
    /\ lastOp.before = <<>>
    /\ Ids(lastOp.seen) \subseteq discarded
    /\ Ids(records) = SeqToSet(lastOp.ids)

====
